---- MODULE Spec2Model ----
(***************************************************************************)
(* sqlpage-includer (src/index.js): a directory-mirroring preprocessor.    *)
(* Text is modelled as a sequence of tokens.  Each token stands for a      *)
(* literal piece of text: "##include" is the nine-character marker, "SP"   *)
(* a blank, "CR" and "LF" the carriage return and the line feed, "Hello"   *)
(* ordinary text; "/" separates path components and the remaining tokens   *)
(* are file names or pieces of them (dist2 is "dist", "2" and dist.html    *)
(* is "dist", ".html").  No token is a prefix of another one, so a prefix  *)
(* test on token sequences is the prefix test on the text.  No input       *)
(* holds a "." or ".." path component.                                     *)
(***************************************************************************)
EXTENDS Integers, Sequences, FiniteSets, TLC

VARIABLES
    fs,       \* the file system: path -> node
    opts,     \* the options parseArguments returns
    top,      \* the file of the top-level resolveIncludes call being stepped
    stack,    \* the active resolveIncludes calls, innermost last
    outcome,  \* what the top-level resolveIncludes call came to
    pc,       \* where the main script is
    walk,     \* processDirectory: the entries left in each directory entered
    child,    \* the child process: none, running, failed (not started), exited
    watcher,  \* the fs.watch subscription
    events,   \* change notifications not yet delivered (file names)
    edits,    \* how many changes the outside world has made
    routed,   \* history: the paths given to processTextFile or copyBinaryFile
    skipped,  \* history: the paths the output directory check passed over
    reads,    \* history: the paths read as a source
    last,     \* history: the last processTextFile or copyBinaryFile call
    stale     \* history: the node at <output>/old.txt when the run began

rvars == <<top, stack, outcome>>
mvars == <<pc, walk, child, watcher, events, edits, routed, skipped, reads, last, stale>>
vars == <<fs, opts, top, stack, outcome, pc, walk, child, watcher, events,
          edits, routed, skipped, reads, last, stale>>

(* ------------------------------ bounds --------------------------------- *)
\* longest file drawn token by token
MaxTextLen == 5
\* largest maxRecursion option drawn
MaxDepthBound == 2
\* most changes the outside world makes while the watcher is open
MaxEdits == 2
\* most lines of a file drawn line by line
MaxLines == 2

(* ------------------------------ text ----------------------------------- *)
INC == "##include"
SP == "SP"
CR == "CR"
LF == "LF"

\* a node of the file system: no entry, a directory, or a file and its content
NoFile == [kind |-> "none", content |-> <<>>]
Dir == [kind |-> "dir", content |-> <<>>]
File(c) == [kind |-> "file", content |-> c]

\* the result of String.prototype.match: null, or the captured group
NoMatch == [found |-> FALSE, target |-> <<>>]
Matched(t) == [found |-> TRUE, target |-> t]

\* \s of a JavaScript regular expression, over the tokens of the model
IsSpace(c) == c \in {SP, CR, LF}

\* . of a JavaScript regular expression: anything but a line terminator
IsDot(c) == c \notin {CR, LF}

SeqMax(S) == CHOOSE x \in S : \A y \in S : y <= x
SeqMin(S) == CHOOSE x \in S : \A y \in S : x <= y

\* s.startsWith(p)
StartsWith(s, p) == Len(p) <= Len(s) /\ SubSeq(s, 1, Len(p)) = p

\* fileContent.split(/\r?\n/): cut at every LF, a CR right before it is part
\* of the terminator; a lone CR stays in its line
RECURSIVE SplitFrom(_, _, _)
SplitFrom(s, i, cur) ==
    IF i > Len(s) THEN <<cur>>
    ELSE IF s[i] = LF THEN <<cur>> \o SplitFrom(s, i + 1, <<>>)
    ELSE IF s[i] = CR /\ i < Len(s) /\ s[i + 1] = LF
         THEN <<cur>> \o SplitFrom(s, i + 2, <<>>)
    ELSE SplitFrom(s, i + 1, Append(cur, s[i]))

SplitLines(s) == SplitFrom(s, 1, <<>>)

\* line.startsWith('##include')
IsDirectiveLine(l) == Len(l) >= 1 /\ l[1] = INC

\* the end of the run of white space that \s+ takes from position k on
RECURSIVE SkipSpaces(_, _)
SkipSpaces(l, k) ==
    IF k <= Len(l) /\ IsSpace(l[k]) THEN SkipSpaces(l, k + 1) ELSE k

\* the last position of the run of non-terminators that .+ takes from k on
RECURSIVE DotRunEnd(_, _)
DotRunEnd(l, k) ==
    IF k <= Len(l) /\ IsDot(l[k]) THEN DotRunEnd(l, k + 1) ELSE k - 1

\* the greedy .+ gives back one position at a time until ">" follows it:
\* the last ">" in lo..hi, or 0
RECURSIVE LastClose(_, _, _)
LastClose(l, lo, hi) ==
    IF hi < lo THEN 0
    ELSE IF l[hi] = ">" THEN hi
    ELSE LastClose(l, lo, hi - 1)

\* the match of /##include\s+<(.+)>/ anchored at position i: the marker,
\* the whole run of white space (at least one), "<", then the greedy (.+)
\* up to the last ">" that only non-terminators separate from the "<"
MatchAt(l, i) ==
    IF i > Len(l) \/ l[i] # INC THEN NoMatch
    ELSE LET j == SkipSpaces(l, i + 1)
         IN IF j < i + 2 \/ j > Len(l) \/ l[j] # "<" THEN NoMatch
            ELSE LET k == LastClose(l, j + 2, DotRunEnd(l, j + 1))
                 IN IF k = 0 THEN NoMatch
                    ELSE Matched(SubSeq(l, j + 1, k - 1))

\* the regular expression is tried at every position from the left
RECURSIVE MatchFrom(_, _)
MatchFrom(l, i) ==
    IF i > Len(l) THEN NoMatch
    ELSE IF MatchAt(l, i).found THEN MatchAt(l, i)
    ELSE MatchFrom(l, i + 1)

\* line.match(/##include\s+<(.+)>/): the leftmost position that matches;
\* the target is match[1]
MatchInclude(l) == MatchFrom(l, 1)

(* ------------------------------ paths ---------------------------------- *)
\* path normalisation of path.resolve / path.join: runs of "/" collapse and
\* a trailing "/" is dropped
RECURSIVE Normalize(_)
Normalize(p) ==
    IF Len(p) = 0 THEN <<>>
    ELSE IF p[1] = "/" /\ Len(p) >= 2 /\ p[2] = "/" THEN Normalize(Tail(p))
    ELSE IF p[1] = "/" /\ Len(p) = 1 THEN <<>>
    ELSE <<p[1]>> \o Normalize(Tail(p))

\* path.resolve(root, rel): an absolute rel stands alone
PathResolve(root, rel) ==
    IF Len(rel) >= 1 /\ rel[1] = "/"
    THEN (IF Normalize(rel) = <<>> THEN <<"/">> ELSE Normalize(rel))
    ELSE Normalize(root \o <<"/">> \o rel)

(* --------------------------- file system ------------------------------- *)
\* fs.existsSync(p)
Exists(f, p) == p \in DOMAIN f /\ f[p].kind # "none"

\* fs.lstatSync(p).isFile() and .isDirectory()
IsFile(f, p) == p \in DOMAIN f /\ f[p].kind = "file"
IsDirectory(f, p) == p \in DOMAIN f /\ f[p].kind = "dir"

(* ------------------------- resolveIncludes ----------------------------- *)
\* what a call of resolveIncludes comes to: the returned text, or the Error
\* thrown (its cause and the file it names); "reads" are the paths given to
\* fs.readFileSync on the way
Returned(text, rd) ==
    [ok |-> TRUE, content |-> text, err |-> "none", at |-> <<>>, reads |-> rd]
Thrown(cause, p, rd) ==
    [ok |-> FALSE, content |-> <<>>, err |-> cause, at |-> p, reads |-> rd]

\* the guard as an off-by-one would have it: one level too few
DepthExceededEarly(currentDepth, maxRecursion) == currentDepth >= maxRecursion

\* the guard as an off-by-one would have it: one level too many
DepthExceededLate(currentDepth, maxRecursion) == currentDepth > maxRecursion + 1

\* the guard of the first statement of resolveIncludes
DepthExceeded(currentDepth, maxRecursion) == currentDepth > maxRecursion

\* the depth of the nested call
NestedDepth(currentDepth) == currentDepth + 1

\* what one line that is not a directive adds to resolvedContent
CopiedLine(l) == l \o <<LF>>

\* what a resolved include adds to resolvedContent
SplicedInclude(text) == text \o <<LF>>

\* a dropped directive copied to the output as an ordinary line is
DroppedLineCopied(l) == l \o <<LF>>

\* what a directive line that is malformed, or whose target is missing,
\* adds to resolvedContent: the branches that only call console.error
DroppedLine(l) == <<>>

RECURSIVE ResolveIncludes(_, _, _, _, _)
RECURSIVE ResolveLines(_, _, _, _, _, _, _, _)

\* the for loop of resolveIncludes from line i on, resolvedContent being acc
ResolveLines(f, lines, i, acc, rd, includeRoot, maxRecursion, currentDepth) ==
    IF i > Len(lines) THEN Returned(acc, rd)
    ELSE LET l == lines[i]
             m == MatchInclude(l)
             includeFilePath == PathResolve(includeRoot, m.target)
         IN IF ~IsDirectiveLine(l)
            THEN ResolveLines(f, lines, i + 1, acc \o CopiedLine(l), rd,
                              includeRoot, maxRecursion, currentDepth)
            ELSE IF m.found /\ Exists(f, includeFilePath)
            THEN LET r == ResolveIncludes(f, includeFilePath, includeRoot,
                                          maxRecursion, NestedDepth(currentDepth))
                 IN IF r.ok
                    THEN ResolveLines(f, lines, i + 1,
                                      acc \o SplicedInclude(r.content),
                                      rd \cup r.reads,
                                      includeRoot, maxRecursion, currentDepth)
                    ELSE Thrown(r.err, r.at, rd \cup r.reads)
            ELSE ResolveLines(f, lines, i + 1, acc \o DroppedLine(l), rd,
                              includeRoot, maxRecursion, currentDepth)

\* resolveIncludes(filePath, includeRoot, maxRecursion, currentDepth) on the
\* file system f.  An Error thrown in a nested call is caught and thrown
\* again by every enclosing call: the top-level call throws.
ResolveIncludes(f, filePath, includeRoot, maxRecursion, currentDepth) ==
    IF DepthExceeded(currentDepth, maxRecursion)
    THEN Thrown("MaxRecursion", filePath, {})
    ELSE IF ~IsFile(f, filePath)
    THEN Thrown("Read", filePath, {filePath})
    ELSE ResolveLines(f, SplitLines(f[filePath].content), 1, <<>>, {filePath},
                      includeRoot, maxRecursion, currentDepth)

(* ------------------- resolveIncludes, call by call --------------------- *)
\* The same function as a machine: one frame per active call, one step per
\* line read, per nested call and per return.
WatchRoot == <<"/", "w">>
InFile(name) == WatchRoot \o <<"/", name>>
AHtml == InFile("a.html")
BHtml == InFile("b.html")
DistDir == InFile("dist")
SubDir == InFile("sub")
\* the i-th file of a chain of nested includes
ChainFile(i) == WatchRoot \o <<"/", "n", ToString(i)>>

Idle == [status |-> "idle", content |-> <<>>, err |-> "none", at |-> <<>>, depth |-> 0]

Frame(p, d, f) ==
    [path |-> p, depth |-> d, lines |-> SplitLines(f[p].content), i |-> 1,
     resolvedContent |-> <<>>]

\* a call resolveIncludes(p, ..., d) made with the calls of stk active: the
\* depth check and the read throw through every enclosing catch
Enter(stk, p, d) ==
    IF DepthExceeded(d, opts.maxRecursion)
    THEN /\ stack' = <<>>
         /\ outcome' = [status |-> "thrown", content |-> <<>>,
                        err |-> "MaxRecursion", at |-> p, depth |-> d]
    ELSE IF ~IsFile(fs, p)
    THEN /\ stack' = <<>>
         /\ outcome' = [status |-> "thrown", content |-> <<>>,
                        err |-> "Read", at |-> p, depth |-> d]
    ELSE /\ stack' = Append(stk, Frame(p, d, fs))
         /\ outcome' = [outcome EXCEPT !.status = "running"]

\* the top-level call resolveIncludes(top, includeRoot, maxRecursion)
RStart ==
    /\ outcome.status = "idle"
    /\ Enter(<<>>, top, 0)
    /\ UNCHANGED <<fs, opts, top, mvars>>

Advance(stk, text) ==
    [stk EXCEPT ![Len(stk)].i = @ + 1,
                ![Len(stk)].resolvedContent = @ \o text]

\* one iteration of the for loop of the innermost call
RLine ==
    /\ outcome.status = "running"
    /\ stack # <<>>
    /\ \E fr \in {stack[Len(stack)]} :
          /\ fr.i <= Len(fr.lines)
          /\ \E l \in {fr.lines[fr.i]} :
             \E m \in {MatchInclude(l)} :
             \E includeFilePath \in {PathResolve(opts.includeRoot, m.target)} :
                \/ /\ ~IsDirectiveLine(l)
                   /\ stack' = Advance(stack, CopiedLine(l))
                   /\ UNCHANGED outcome
                \/ /\ IsDirectiveLine(l)
                   /\ m.found
                   /\ Exists(fs, includeFilePath)
                   /\ Enter(stack, includeFilePath, NestedDepth(fr.depth))
                \/ /\ IsDirectiveLine(l)
                   /\ ~(m.found /\ Exists(fs, includeFilePath))
                   /\ stack' = Advance(stack, DroppedLine(l))
                   /\ UNCHANGED outcome
    /\ UNCHANGED <<fs, opts, top, mvars>>

\* return resolvedContent: to the caller's += ... + '\n', or to the top
RReturn ==
    /\ outcome.status = "running"
    /\ stack # <<>>
    /\ \E fr \in {stack[Len(stack)]} :
       \E rest \in {SubSeq(stack, 1, Len(stack) - 1)} :
          /\ fr.i > Len(fr.lines)
          /\ \/ /\ rest # <<>>
                /\ stack' = Advance(rest, SplicedInclude(fr.resolvedContent))
                /\ UNCHANGED outcome
             \/ /\ rest = <<>>
                /\ stack' = <<>>
                /\ outcome' = [status |-> "returned",
                               content |-> fr.resolvedContent,
                               err |-> "none", at |-> <<>>, depth |-> 0]
    /\ UNCHANGED <<fs, opts, top, mvars>>

NextR == RStart \/ RLine \/ RReturn

(* inputs of the resolver specification *)
TextAlphabet == {INC, SP, "<", ">", "b.html", CR, LF}

RECURSIVE SeqsUpTo(_, _)
SeqsUpTo(S, n) ==
    IF n = 0 THEN {<<>>}
    ELSE LET R == SeqsUpTo(S, n - 1)
         IN R \cup {Append(r, x) : r \in {q \in R : Len(q) = n - 1}, x \in S}

Include(name) == <<INC, SP, "<">> \o name \o <<">">>

\* lines a file is drawn from, line by line
Lines ==
    { <<"Hello">>, <<>>,
      Include(<<"b.html">>), Include(<<"a.html">>), Include(<<"dist">>),
      Include(<<"m.html">>), Include(<<"b.html", ">", "Hello">>),
      <<INC, "<", "b.html", ">">>, <<INC, "Hello", INC, SP, "<", "b.html", ">">> }

RECURSIVE JoinLines(_, _)
JoinLines(ls, term) ==
    IF Len(ls) = 0 THEN <<>>
    ELSE IF Len(ls) = 1 THEN ls[1]
    ELSE ls[1] \o term \o JoinLines(Tail(ls), term)

\* files of 1..MaxLines lines with LF or CRLF terminators, the last line
\* with or without one
LineTexts ==
    {JoinLines(ls, t) \o e :
        ls \in SeqsUpTo(Lines, MaxLines) \ {<<>>},
        t \in {<<LF>>, <<CR, LF>>},
        e \in {<<>>, <<LF>>}}

OptsR(d) ==
    [output |-> DistDir, skipDelete |-> FALSE, includeRoot |-> WatchRoot,
     maxRecursion |-> d]

BaseFs == (WatchRoot :> Dir) @@ (DistDir :> Dir)

\* a chain of n nested includes: file 0 includes file 1, ..., file n is plain
ChainFs(n) ==
    [p \in {ChainFile(i) : i \in 0..n} |->
        LET i == CHOOSE k \in 0..n : ChainFile(k) = p
        IN IF i < n THEN File(Include(<<"n", ToString(i + 1)>>))
           ELSE File(<<"Hello">>)]

\* the main script is not part of the resolver specifications
MainIdle ==
    /\ pc = "off"
    /\ walk = <<>>
    /\ child = "none"
    /\ watcher = "none"
    /\ events = <<>>
    /\ edits = 0
    /\ routed = {}
    /\ skipped = {}
    /\ reads = {}
    /\ last = [n |-> 0, w |-> 0, op |-> "none", path |-> <<>>, ok |-> TRUE]
    /\ stale = NoFile

InitR ==
    /\ MainIdle
    /\ stack = <<>>
    /\ outcome = Idle
    /\ \/ /\ top = AHtml
          /\ \E t \in SeqsUpTo(TextAlphabet, MaxTextLen) :
                fs = (AHtml :> File(t)) @@ (BHtml :> File(<<"Hello">>)) @@ BaseFs
          /\ opts = OptsR(MaxDepthBound)
       \/ /\ top = AHtml
          /\ \E t \in LineTexts :
             \E b \in {NoFile, File(<<"Hello">>), File(<<"Hello", LF>>),
                        File(Include(<<"a.html">>)), File(Include(<<"b.html">>))} :
                fs = (AHtml :> File(t)) @@ (BHtml :> b) @@ BaseFs
          /\ \E d \in 0..MaxDepthBound : opts = OptsR(d)
       \/ /\ top = ChainFile(0)
          /\ \E n \in 0..(MaxDepthBound + 1) : fs = ChainFs(n) @@ BaseFs
          /\ \E d \in 0..MaxDepthBound : opts = OptsR(d)

SpecR == InitR /\ [][NextR]_vars

\* inputs of the termination specification: a.html and b.html drawn from
\* plain lines and includes of each other and of themselves
CycleLines == {<<"Hello">>, Include(<<"a.html">>), Include(<<"b.html">>)}

CycleTexts ==
    {JoinLines(ls, <<LF>>) \o e :
        ls \in SeqsUpTo(CycleLines, MaxLines) \ {<<>>}, e \in {<<>>, <<LF>>}}

InitCycle ==
    /\ MainIdle
    /\ stack = <<>>
    /\ outcome = Idle
    /\ top = AHtml
    /\ \E t \in CycleTexts :
       \E b \in {NoFile} \cup {File(u) : u \in CycleTexts} :
          fs = (AHtml :> File(t)) @@ (BHtml :> b) @@ BaseFs
    /\ \E d \in 0..MaxDepthBound : opts = OptsR(d)

\* resolveIncludes is synchronous: a call that has begun runs on until it
\* returns or throws
SpecCycle == InitCycle /\ [][NextR]_vars /\ WF_vars(NextR)

\* the machine comes to what the function computes
MachineAgrees ==
    outcome.status \in {"returned", "thrown"} =>
        LET r == ResolveIncludes(fs, top, opts.includeRoot, opts.maxRecursion, 0)
        IN /\ r.ok = (outcome.status = "returned")
           /\ r.content = outcome.content
           /\ r.err = outcome.err
           /\ r.at = outcome.at

(* ------------------------- the main script ----------------------------- *)
\* options.textExtensions as parseArguments builds it, no --textExtensions given
TextExtensions == {".txt", ".html", ".js", ".css", ".json", ".md", ".sql"}

\* path.extname(p): the extension of the last name of the path, as written.
\* A name that is an extension and nothing else (.html) has none.
RawExtName(p) ==
    LET n == p[Len(p)]
    IN IF n \in {"a.html", "b.html"} THEN ".html"
       ELSE IF n = "c.HTML" THEN ".HTML"
       ELSE IF n = "old.txt" THEN ".txt"
       ELSE IF n = "p.png" THEN ".png"
       ELSE IF n = ".html" /\ Len(p) > 1 /\ p[Len(p) - 1] # "/" THEN ".html"
       ELSE ""

\* String.prototype.toLowerCase on an extension
ToLowerCase(e) == IF e = ".HTML" THEN ".html" ELSE e

\* path.extname(p).toLowerCase()
ExtName(p) == ToLowerCase(RawExtName(p))

\* a classifier that takes every file with an extension for text
IsTextFileAnyExtension(filePath, textExtensions) == ExtName(filePath) # ""

IsTextFile(filePath, textExtensions) == ExtName(filePath) \in textExtensions

\* path.dirname(p)
Parent(p) ==
    LET S == {k \in 2..Len(p) : p[k] = "/"}
    IN IF S = {} THEN <<"/">> ELSE SubSeq(p, 1, SeqMax(S) - 1)

\* the directories above p, the root left out
Ancestors(p) == {SubSeq(p, 1, k - 1) : k \in {k \in 2..Len(p) : p[k] = "/"}}

\* a directory whose entries the process may not list (EACCES)
LockedDir == [kind |-> "dir", content |-> <<"EACCES">>]

\* fs.readdirSync(d) returns
Listable(f, d) == f[d] = Dir

\* fs.readdirSync(d), as paths
Entries(f, d) == {q \in DOMAIN f : Exists(f, q) /\ Len(q) > 1 /\ Parent(q) = d}

\* path.relative(from, to) for a path to below from
PathRelative(from, to) == SubSeq(to, Len(from) + 2, Len(to))

\* path.join(a, b)
PathJoin(a, b) == Normalize(a \o <<"/">> \o b)

\* the check no skip would be: nothing is held to lie in the output directory
InOutputDirNever(filePath, outputDir) == FALSE

\* path.resolve(filePath).startsWith(path.resolve(outputDir))
InOutputDir(filePath, outputDir) == StartsWith(filePath, outputDir)

\* the file system with node n at path p
Put(f, p, n) == [q \in DOMAIN f \cup {p} |-> IF q = p THEN n ELSE f[q]]

\* fs.mkdirSync(d, { recursive: true }) throws when a file is in the way
MkdirOk(f, d) == \A a \in Ancestors(d) \cup {d} : ~IsFile(f, a)

Mkdir(f, d) ==
    [q \in DOMAIN f \cup Ancestors(d) \cup {d} |->
        IF q \in DOMAIN f /\ IsDirectory(f, q) THEN f[q]
        ELSE IF q \in Ancestors(d) \cup {d} THEN Dir ELSE f[q]]

\* fs.rmSync(d, { recursive: true, force: true })
RmRecursive(f, d) ==
    [q \in DOMAIN f |->
        IF q = d \/ StartsWith(q, d \o <<"/">>) THEN NoFile ELSE f[q]]

\* path.join(outputDir, path.relative(watchRoot, filePath))
OutputFilePath(outputDir, watchRoot, filePath) ==
    PathJoin(outputDir, PathRelative(watchRoot, filePath))

\* mkdirSync of the directory, then writeFileSync or copyFileSync of node n:
\* what is on disk after them, an exception leaving what was done before it
WriteOutput(f, out, n) ==
    IF ~MkdirOk(f, Parent(out)) THEN f
    ELSE IF IsDirectory(f, out) THEN Mkdir(f, Parent(out))
    ELSE Put(Mkdir(f, Parent(out)), out, n)

\* processTextFile writing the output whatever resolveIncludes came to
ProcessTextFileAlwaysWrites(f, filePath, outputDir, includeRoot, maxRecursion, watchRoot) ==
    WriteOutput(f, OutputFilePath(outputDir, watchRoot, filePath),
                File(ResolveIncludes(f, filePath, includeRoot, maxRecursion, 0).content))

\* processTextFile returning with its write still to come
ProcessTextFileDefers(f, filePath, outputDir, includeRoot, maxRecursion, watchRoot) == f

\* processTextFile writing the file as it is read, no include expanded
ProcessTextFileCopies(f, filePath, outputDir, includeRoot, maxRecursion, watchRoot) ==
    IF IsFile(f, filePath)
    THEN WriteOutput(f, OutputFilePath(outputDir, watchRoot, filePath), f[filePath])
    ELSE f

\* processTextFile: the file system after it.  The function is async but
\* awaits nothing: its body runs to its end inside the call.
ProcessTextFile(f, filePath, outputDir, includeRoot, maxRecursion, watchRoot) ==
    LET r == ResolveIncludes(f, filePath, includeRoot, maxRecursion, 0)
    IN IF r.ok
       THEN WriteOutput(f, OutputFilePath(outputDir, watchRoot, filePath),
                        File(r.content))
       ELSE f

\* copyBinaryFile: the file system after it
CopyBinaryFile(f, filePath, outputDir, watchRoot) ==
    IF IsFile(f, filePath)
    THEN WriteOutput(f, OutputFilePath(outputDir, watchRoot, filePath), f[filePath])
    ELSE IF MkdirOk(f, Parent(OutputFilePath(outputDir, watchRoot, filePath)))
    THEN Mkdir(f, Parent(OutputFilePath(outputDir, watchRoot, filePath)))
    ELSE f

\* resetOutputDirectory deleting whatever skipDelete says
ResetAlwaysDeletes(f, outputDir, skipDelete) ==
    Mkdir(RmRecursive(f, outputDir), outputDir)

\* resetOutputDirectory: the file system after it
ResetOutputDirectory(f, outputDir, skipDelete) ==
    IF ~skipDelete
    THEN Mkdir(IF Exists(f, outputDir) THEN RmRecursive(f, outputDir) ELSE f,
               outputDir)
    ELSE f

\* the routing of one file, in processDirectory and in the watch callback:
\* the file system, the notification the write raises in an open watcher on
\* a watched output directory, and the history
RouteFile(filePath) ==
    LET isText == IsTextFile(filePath, TextExtensions)
        r == ResolveIncludes(fs, filePath, opts.includeRoot, opts.maxRecursion, 0)
        out == OutputFilePath(opts.output, WatchRoot, filePath)
        f2 == IF isText
              THEN ProcessTextFile(fs, filePath, opts.output, opts.includeRoot,
                                   opts.maxRecursion, WatchRoot)
              ELSE CopyBinaryFile(fs, filePath, opts.output, WatchRoot)
    IN /\ fs' = f2
       /\ routed' = routed \cup {filePath}
       /\ reads' = reads \cup (IF isText THEN r.reads ELSE {filePath})
       /\ last' = [n |-> last.n + 1,
                   w |-> IF pc = "watching" THEN last.w + 1 ELSE 0,
                   op |-> IF isText THEN "text" ELSE "binary",
                   path |-> filePath,
                   ok |-> IF isText THEN r.ok ELSE IsFile(fs, filePath)]
       /\ events' =
            IF /\ watcher = "open"
               /\ StartsWith(out, WatchRoot \o <<"/">>)
               /\ IF isText THEN r.ok ELSE IsFile(fs, filePath)
               /\ MkdirOk(fs, Parent(out)) /\ ~IsDirectory(fs, out)
            THEN Append(IF pc = "watching" THEN Tail(events) ELSE events,
                        PathRelative(WatchRoot, out))
            ELSE IF pc = "watching" THEN Tail(events) ELSE events

\* the main script going on to the reset without a look at the watch directory
MainResetUnchecked ==
    /\ pc = "main"
    /\ fs' = ResetOutputDirectory(fs, opts.output, opts.skipDelete)
    /\ walk' = <<Entries(fs', WatchRoot)>>
    /\ pc' = "walk"
    /\ UNCHANGED <<opts, rvars, child, watcher, events, edits, routed, skipped, reads, last, stale>>

\* the main script: the watch directory is there, resetOutputDirectory runs
\* and processDirectory lists the watch directory
MainReset ==
    /\ pc = "main"
    /\ IsDirectory(fs, WatchRoot)
    /\ fs' = ResetOutputDirectory(fs, opts.output, opts.skipDelete)
    /\ walk' = <<Entries(fs', WatchRoot)>>
    /\ pc' = "walk"
    /\ UNCHANGED <<opts, rvars, child, watcher, events, edits, routed, skipped, reads, last, stale>>

\* the main script: no watch directory, process.exit(1)
MainAbort ==
    /\ pc = "main"
    /\ ~IsDirectory(fs, WatchRoot)
    /\ pc' = "exit1"
    /\ UNCHANGED <<fs, opts, rvars, walk, child, watcher, events, edits, routed, skipped, reads, last, stale>>

\* processDirectory: one entry of the innermost directory, in any order
\* (readdirSync promises none), or the return from a directory done.  The
\* readdirSync of a directory that cannot be listed throws, and nothing
\* between it and the top of the script catches: the process dies.
WalkStep ==
    /\ pc = "walk"
    /\ walk # <<>>
    /\ \E rest \in {SubSeq(walk, 1, Len(walk) - 1)} :
          \/ /\ walk[Len(walk)] = {}
             /\ walk' = rest
             /\ UNCHANGED <<fs, pc, events, routed, skipped, reads, last>>
          \/ \E filePath \in walk[Len(walk)] :
             \E left \in {Append(rest, walk[Len(walk)] \ {filePath})} :
                \/ /\ InOutputDir(filePath, opts.output)
                   /\ walk' = left
                   /\ skipped' = skipped \cup {filePath}
                   /\ UNCHANGED <<fs, pc, events, routed, reads, last>>
                \/ /\ ~InOutputDir(filePath, opts.output)
                   /\ IsDirectory(fs, filePath)
                   /\ Listable(fs, filePath)
                   /\ walk' = Append(left, Entries(fs, filePath))
                   /\ UNCHANGED <<fs, pc, events, routed, skipped, reads, last>>
                \/ /\ ~InOutputDir(filePath, opts.output)
                   /\ IsDirectory(fs, filePath)
                   /\ ~Listable(fs, filePath)
                   /\ pc' = "crashed"
                   /\ walk' = left
                   /\ UNCHANGED <<fs, events, routed, skipped, reads, last>>
                \/ /\ ~InOutputDir(filePath, opts.output)
                   /\ ~IsDirectory(fs, filePath)
                   /\ walk' = left
                   /\ RouteFile(filePath)
                   /\ UNCHANGED <<pc, skipped>>
    /\ UNCHANGED <<opts, rvars, child, watcher, edits, stale>>

\* spawnChildProcess not waiting for processDirectory to return
SpawnChildProcessEarly ==
    /\ pc = "walk"
    /\ child' = IF IsDirectory(fs, opts.output) THEN "running" ELSE "failed"
    /\ pc' = "spawned"
    /\ UNCHANGED <<fs, opts, rvars, walk, watcher, events, edits, routed, skipped, reads, last, stale>>

\* spawnChildProcess, once processDirectory has returned
SpawnChildProcess ==
    /\ pc = "walk"
    /\ walk = <<>>
    /\ child' = IF IsDirectory(fs, opts.output) THEN "running" ELSE "failed"
    /\ pc' = "spawned"
    /\ UNCHANGED <<fs, opts, rvars, walk, watcher, events, edits, routed, skipped, reads, last, stale>>

\* watchDirectory: fs.watch and the 'close' listener
WatchDirectory ==
    /\ pc = "spawned"
    /\ watcher' = "open"
    /\ pc' = "watching"
    /\ UNCHANGED <<fs, opts, rvars, walk, child, events, edits, routed, skipped, reads, last, stale>>

\* the files the outside world changes
EditedFiles == {AHtml, BHtml}

\* the contents it gives them: a.html comes to hold plain text, an include
\* of b.html or an include of itself, b.html plain text
EditedTexts(p) ==
    IF p = AHtml THEN {<<"Hello">>, Include(<<"b.html">>), Include(<<"a.html">>)}
    ELSE {<<"Hello">>}

\* the outside world writes a file of the watched tree
ExternalEdit ==
    /\ watcher = "open"
    /\ edits < MaxEdits
    /\ \E p \in EditedFiles : \E t \in EditedTexts(p) :
          /\ fs' = Put(fs, p, File(t))
          /\ events' = Append(events, PathRelative(WatchRoot, p))
    /\ edits' = edits + 1
    /\ UNCHANGED <<opts, rvars, pc, walk, child, watcher, routed, skipped, reads, last, stale>>

\* the outside world deletes a file of the watched tree
ExternalDelete ==
    /\ watcher = "open"
    /\ edits < MaxEdits
    /\ \E p \in EditedFiles :
          /\ Exists(fs, p)
          /\ fs' = Put(fs, p, NoFile)
          /\ events' = Append(events, PathRelative(WatchRoot, p))
    /\ edits' = edits + 1
    /\ UNCHANGED <<opts, rvars, pc, walk, child, watcher, routed, skipped, reads, last, stale>>

\* the outside world changes the directory sub itself (its mode, its times):
\* a notification that names a directory
ExternalTouchDir ==
    /\ watcher = "open"
    /\ edits < MaxEdits
    /\ IsDirectory(fs, SubDir)
    /\ events' = Append(events, PathRelative(WatchRoot, SubDir))
    /\ edits' = edits + 1
    /\ UNCHANGED <<fs, opts, rvars, pc, walk, child, watcher, routed, skipped, reads, last, stale>>

\* a callback that removes the output counterpart of a path that is gone
OnChangeMirrorsDelete ==
    /\ watcher = "open"
    /\ events # <<>>
    /\ \E filePath \in {PathJoin(WatchRoot, Head(events))} :
          /\ fs' = IF Exists(fs, filePath) THEN fs
                    ELSE Put(fs, OutputFilePath(opts.output, WatchRoot, filePath), NoFile)
          /\ events' = Tail(events)
    /\ UNCHANGED <<opts, rvars, pc, walk, child, watcher, edits, routed, skipped, reads, last, stale>>

\* a callback that lets the notification go by
OnChangeIgnores ==
    /\ watcher = "open"
    /\ events # <<>>
    /\ events' = Tail(events)
    /\ UNCHANGED <<fs, opts, rvars, pc, walk, child, watcher, edits, routed, skipped, reads, last, stale>>

\* the fs.watch callback on the next notification
OnChange ==
    /\ watcher = "open"
    /\ events # <<>>
    /\ \E filePath \in {PathJoin(WatchRoot, Head(events))} :
          \/ /\ InOutputDir(filePath, opts.output)
             /\ events' = Tail(events)
             /\ skipped' = skipped \cup {filePath}
             /\ UNCHANGED <<fs, routed, reads, last>>
          \/ /\ ~InOutputDir(filePath, opts.output)
             /\ ~(Exists(fs, filePath) /\ IsFile(fs, filePath))
             /\ events' = Tail(events)
             /\ UNCHANGED <<fs, routed, skipped, reads, last>>
          \/ /\ ~InOutputDir(filePath, opts.output)
             /\ Exists(fs, filePath) /\ IsFile(fs, filePath)
             /\ RouteFile(filePath)
             /\ UNCHANGED skipped
    /\ UNCHANGED <<opts, rvars, pc, walk, child, watcher, edits, stale>>

\* the child process ends, for a reason of its own and with any exit code
ChildExit ==
    /\ child = "running"
    /\ child' = "exited"
    /\ UNCHANGED <<fs, opts, rvars, pc, walk, watcher, events, edits, routed, skipped, reads, last, stale>>

\* the child's 'close' event, once the main script has returned to the event
\* loop: watcher.close().  The runtime emits 'close' after 'exit', and after
\* 'error' when the child could not be started.
ChildClose ==
    /\ pc = "watching"
    /\ child \in {"exited", "failed"}
    /\ watcher = "open"
    /\ watcher' = "closed"
    /\ events' = <<>>
    /\ UNCHANGED <<fs, opts, rvars, pc, walk, child, edits, routed, skipped, reads, last, stale>>

Next ==
    \/ MainReset
    \/ MainAbort
    \/ WalkStep
    \/ SpawnChildProcess
    \/ WatchDirectory
    \/ ExternalEdit
    \/ ExternalDelete
    \/ ExternalTouchDir
    \/ OnChange
    \/ ChildExit
    \/ ChildClose

(* inputs of the run *)
OutsideDir == <<"/", "o">>
CHtml == SubDir \o <<"/", "c.HTML">>
\* next to dist: the file dist2 and the file dist.html
Dist2 == DistDir \o <<"2">>
DistHtml == DistDir \o <<".html">>
PPng == InFile("p.png")
OldTxt(outputDir) == outputDir \o <<"/", "old.txt">>

\* every path of the model, absent
NoFs ==
    [p \in {WatchRoot, AHtml, BHtml, PPng, SubDir, CHtml, DistDir, OutsideDir,
            Dist2, DistHtml} \cup
           {OutputFilePath(o, WatchRoot, q) :
               o \in {DistDir, OutsideDir},
               q \in {AHtml, BHtml, PPng, CHtml, Dist2, DistHtml}} \cup
           {OutputFilePath(o, WatchRoot, SubDir) : o \in {DistDir, OutsideDir}} \cup
           {OldTxt(o) : o \in {DistDir, OutsideDir}}
     |-> NoFile]

\* the input tree: a.html and b.html as drawn, a binary file, a directory
\* with a text file, and two files whose names begin with dist
InputFs(a, b, sub) ==
    (WatchRoot :> Dir) @@ (AHtml :> File(a)) @@ (BHtml :> b) @@
    (PPng :> File(Include(<<"b.html">>))) @@
    (SubDir :> sub) @@ (CHtml :> File(<<"Hello", LF>>)) @@
    (Dist2 :> File(Include(<<"b.html">>))) @@ (DistHtml :> File(<<"Hello">>))

\* an output directory left by an earlier run
StaleFs(o) ==
    (o :> Dir) @@ (OldTxt(o) :> File(<<"Hello">>)) @@
    (OutputFilePath(o, WatchRoot, BHtml) :> File(<<"Hello", LF>>))

Init ==
    /\ top = AHtml
    /\ stack = <<>>
    /\ outcome = Idle
    /\ pc = "main"
    /\ walk = <<>>
    /\ child = "none"
    /\ watcher = "none"
    /\ events = <<>>
    /\ edits = 0
    /\ routed = {}
    /\ skipped = {}
    /\ reads = {}
    /\ last = [n |-> 0, w |-> 0, op |-> "none", path |-> <<>>, ok |-> TRUE]
    /\ \E o \in {DistDir, OutsideDir} : \E sd \in BOOLEAN : \E d \in {MaxDepthBound} :
          opts = [output |-> o, skipDelete |-> sd, includeRoot |-> WatchRoot,
                  maxRecursion |-> d]
    /\ \/ \E w \in {NoFile, File(<<"Hello">>), Dir} : \E old \in BOOLEAN :
             fs = (WatchRoot :> w) @@
                  (IF old /\ opts.output = OutsideDir THEN StaleFs(OutsideDir) ELSE NoFs) @@
                  NoFs
       \/ \E a \in {<<"Hello">>, Include(<<"b.html">>), Include(<<"sub">>),
                    Include(<<"dist", "/", "b.html">>)} :
          \E b \in {NoFile, File(<<"Hello">>)} :
          \* (without skipDelete the reset leaves the same file system with
          \* and without an earlier output directory: one of the two is drawn)
          \E old \in {x \in BOOLEAN : x \/ opts.skipDelete} : \E sub \in {Dir, LockedDir} :
             fs = InputFs(a, b, sub) @@ (IF old THEN StaleFs(opts.output) ELSE NoFs) @@ NoFs
    /\ stale = fs[OldTxt(opts.output)]

Spec == Init /\ [][Next]_vars


(* ----------------------- claims on resolveIncludes --------------------- *)
Done == outcome.status \in {"returned", "thrown"}

Range(q) == {q[i] : i \in 1..Len(q)}

TopLines == SplitLines(fs[top].content)

\* text with every CR LF pair replaced by LF
RECURSIVE CrlfToLf(_)
CrlfToLf(t) ==
    IF Len(t) = 0 THEN <<>>
    ELSE IF Len(t) >= 2 /\ t[1] = CR /\ t[2] = LF THEN <<LF>> \o CrlfToLf(SubSeq(t, 3, Len(t)))
    ELSE <<t[1]>> \o CrlfToLf(Tail(t))

HasDirectiveLine(t) == \E i \in 1..Len(SplitLines(t)) : IsDirectiveLine(SplitLines(t)[i])

\* C1: a file that is the one line ##include <b.html>, b.html holding no
\* directive, expands to the content of b.html followed by exactly one
\* line terminator.
C1_SplicesContentAndOneTerminator ==
    (/\ Done
     /\ top = AHtml
     /\ opts.maxRecursion >= 1
     /\ fs[AHtml].content = Include(<<"b.html">>)
     /\ IsFile(fs, BHtml)
     /\ ~HasDirectiveLine(fs[BHtml].content))
    => /\ outcome.status = "returned"
       /\ outcome.content = CrlfToLf(fs[BHtml].content) \o <<LF>>

\* C2: a file with no line beginning with ##include expands to its own
\* content with CR LF turned into LF: the same lines and as many line
\* terminators as the input has.
C2_IdentityUpToTerminators ==
    (Done /\ ~HasDirectiveLine(fs[top].content))
    => /\ outcome.status = "returned"
       /\ outcome.content = CrlfToLf(fs[top].content)

\* the number n of nested includes of the chain the file system holds
ChainLength == Cardinality({p \in DOMAIN fs : p[Len(p) - 1] = "n"}) - 1
IsChainRun == top = ChainFile(0)

\* C3: the top-level call runs at depth 0 and every nested call one deeper;
\* a chain of n nested includes expands when n <= maxRecursion and, when
\* n = maxRecursion + 1, the top-level call throws the depth error and
\* returns no content.
C3_ChainWithinDepthSucceeds ==
    /\ \A k \in 1..Len(stack) : stack[k].depth = k - 1
    /\ (Done /\ IsChainRun) =>
          /\ ChainLength <= opts.maxRecursion => outcome.status = "returned"
          /\ ChainLength = opts.maxRecursion + 1 =>
                /\ outcome.status = "thrown"
                /\ outcome.err = "MaxRecursion"
                /\ outcome.content = <<>>
                /\ outcome.at = ChainFile(opts.maxRecursion + 1)

C3_Witness ==
    /\ IsChainRun
    /\ opts.maxRecursion >= 1
    /\ ChainLength = opts.maxRecursion + 1
    /\ outcome.status = "thrown"
    /\ outcome.err = "MaxRecursion"

\* a.html includes itself, or includes b.html which includes a.html or
\* itself, and no directive of a.html names the directory
CyclicInput ==
    /\ top = AHtml
    /\ Include(<<"dist">>) \notin Range(TopLines)
    /\ \/ Include(<<"a.html">>) \in Range(TopLines)
       \/ /\ Include(<<"b.html">>) \in Range(TopLines)
          /\ IsFile(fs, BHtml)
          /\ fs[BHtml].content \in {Include(<<"a.html">>), Include(<<"b.html">>)}

\* C4: every top-level call terminates, and on a self-including or
\* mutually including file it ends by throwing the depth error, raised by
\* the call whose depth is the first to exceed maxRecursion.
C4_CycleTerminatesByDepth ==
    <>(/\ Done
       /\ CyclicInput =>
            /\ outcome.status = "thrown"
            /\ outcome.err = "MaxRecursion"
            /\ outcome.depth = opts.maxRecursion + 1)

C4_Witness ==
    /\ CyclicInput
    /\ opts.maxRecursion = MaxDepthBound
    /\ fs[BHtml].content = Include(<<"a.html">>)
    /\ Include(<<"a.html">>) \notin Range(TopLines)
    /\ outcome.status = "thrown"
    /\ outcome.depth = opts.maxRecursion + 1

\* a directive line resolveIncludes drops: malformed, or its target missing
IsDropped(l) ==
    /\ IsDirectiveLine(l)
    /\ \/ ~MatchInclude(l).found
       \/ ~Exists(fs, PathResolve(opts.includeRoot, MatchInclude(l).target))

KeptLines == SelectSeq(TopLines, LAMBDA l : ~IsDropped(l))

\* C6: a line that begins with the marker and is malformed, or names a
\* missing target, adds nothing to the output and does not abort: the call
\* comes to what it comes to on the same lines without the dropped ones.
C6_DroppedLineAddsNothing ==
    Done =>
        LET r == ResolveLines(fs, KeptLines, 1, <<>>, {top},
                              opts.includeRoot, opts.maxRecursion, 0)
        IN /\ r.ok = (outcome.status = "returned")
           /\ r.content = outcome.content
           /\ r.err = outcome.err

C6_Witness ==
    /\ outcome.status = "returned"
    /\ Len(TopLines) = 2
    /\ IsDropped(TopLines[1])
    /\ ~MatchInclude(TopLines[1]).found
    /\ TopLines[2] = <<"Hello">>
    /\ outcome.content = <<"Hello", LF>>

\* the text between the first "<" of a line and the next ">"
BetweenFirstBrackets(l) ==
    LET O == {i \in 1..Len(l) : l[i] = "<"}
        a == SeqMin(O)
        C == {k \in 1..Len(l) : k > a /\ l[k] = ">"}
    IN IF O = {} \/ C = {} THEN <<>> ELSE SubSeq(l, a + 1, SeqMin(C) - 1)

\* C7: a line is a directive iff it begins with the marker, and the target
\* of a directive is the text between its first "<" and the next ">": a
\* one-line file whose directive names b.html that way has b.html spliced.
C7_TargetEndsAtNextBracket ==
    (/\ Done
     /\ top = AHtml
     /\ opts.maxRecursion >= 1
     /\ fs[BHtml] = File(<<"Hello">>)
     /\ Len(TopLines) = 1
     /\ IsDirectiveLine(TopLines[1])
     /\ MatchInclude(TopLines[1]).found
     /\ BetweenFirstBrackets(TopLines[1]) = <<"b.html">>)
    => "Hello" \in Range(outcome.content)

(* ------------------------ claims on the run ---------------------------- *)
\* p is the output directory or lies in it
InsideOutput(p) == p = opts.output \/ StartsWith(p, opts.output \o <<"/">>)

PassDone == (pc = "walk" /\ walk = <<>>) \/ pc \in {"spawned", "watching"}

\* C5: a processTextFile call whose expansion fails (the depth error, or a
\* read failure in the file or in a nested include) writes nothing: the
\* output counterpart stays absent or keeps the version written before.
C5_FailedExpansionWritesNothing ==
    [][(last'.n # last.n /\ last'.op = "text" /\ ~last'.ok) => fs' = fs]_vars

C5_Witness ==
    /\ pc = "watching"
    /\ last.op = "text"
    /\ ~last.ok
    /\ last.path = AHtml
    /\ IsFile(fs, OutputFilePath(opts.output, WatchRoot, AHtml))
    /\ fs[AHtml].content = Include(<<"a.html">>)

\* C8 as stated: no path inside the output directory is ever read as a
\* source, in the walk, on a change event or through an include.
C8_NoOutputPathRead == \A p \in reads : ~InsideOutput(p)

\* C8: no path inside the output directory is ever routed to expansion or
\* copy, in the walk or on a change event, so a write into a watched output
\* directory causes no further materialization (a directive may still name
\* a file of the output directory, and that file is then read).
C8_NoOutputPathRouted == \A p \in routed : ~InsideOutput(p)

C8_Witness ==
    /\ opts.output = DistDir
    /\ pc = "watching"
    /\ OutputFilePath(DistDir, WatchRoot, AHtml) \in skipped
    /\ DistDir \in skipped
    /\ events = <<>>
    /\ edits = 1

\* C9: a stale old.txt of an output directory left by an earlier run is
\* gone after the reset and the pass when skipDelete is off, and is there
\* with its content when skipDelete is on.
C9_StaleFileFollowsSkipDelete ==
    (PassDone /\ stale.kind = "file") =>
        IF opts.skipDelete
        THEN fs[OldTxt(opts.output)] = stale
        ELSE ~Exists(fs, OldTxt(opts.output))

C9_Witness ==
    /\ PassDone
    /\ stale.kind = "file"
    /\ ~opts.skipDelete
    /\ ~Exists(fs, OldTxt(opts.output))
    /\ routed # {}

\* C10: once resetOutputDirectory has returned the output directory exists,
\* whatever skipDelete is, so the child is given a working directory.
C10_OutputDirExistsAfterReset ==
    pc \in {"walk", "spawned", "watching"} => IsDirectory(fs, opts.output)

\* C11: the watcher is closed only by the exit of the child process: it is
\* open in every state of the watch in which the child has not exited, and
\* a closed watcher means a child that ran and exited.
C11_ClosedOnlyAfterChildExit ==
    /\ (pc = "watching" /\ child # "exited") => watcher = "open"
    /\ watcher = "closed" => child = "exited"

\* the regular files of f other than out are the same in f and g
SameFilesBut(f, g, out) ==
    \A q \in (DOMAIN f \cup DOMAIN g) \ {out} :
        (IsFile(f, q) \/ IsFile(g, q)) => (q \in DOMAIN f /\ q \in DOMAIN g /\ f[q] = g[q])

\* C12: once the pass is over, a change of a text file is answered by one
\* call of processTextFile for that file: never more calls than changes, the
\* output counterpart of the file gets the expansion of its new content, and
\* every other file stays as it is.
C12_EditRematerializesThatFileOnly ==
    /\ [](last.w <= edits)
    /\ [][(pc = "watching" /\ last'.n # last.n /\ last'.op = "text") =>
            /\ last'.w = last.w + 1
            /\ SameFilesBut(fs, fs', OutputFilePath(opts.output, WatchRoot, last'.path))
            /\ last'.ok =>
                 fs'[OutputFilePath(opts.output, WatchRoot, last'.path)] =
                    File(ResolveIncludes(fs, last'.path, opts.includeRoot,
                                         opts.maxRecursion, 0).content)]_vars

C12_Witness ==
    /\ pc = "watching"
    /\ opts.output = DistDir
    /\ edits = 1
    /\ events = <<>>
    /\ last.w = 1
    /\ last.ok
    /\ last.path = AHtml
    /\ fs[AHtml] = File(Include(<<"b.html">>))
    /\ fs[BHtml] = File(<<"Hello">>)
    /\ fs[OutputFilePath(DistDir, WatchRoot, AHtml)] = File(<<"Hello", LF, LF>>)
    /\ fs[OutputFilePath(DistDir, WatchRoot, BHtml)] = File(<<"Hello", LF>>)

\* what processTextFile or copyBinaryFile makes of the file at p as it is now
Materialization(p) ==
    IF IsTextFile(p, TextExtensions)
    THEN File(ResolveIncludes(fs, p, opts.includeRoot, opts.maxRecursion, 0).content)
    ELSE fs[p]

Expands(p) ==
    IsTextFile(p, TextExtensions) =>
        ResolveIncludes(fs, p, opts.includeRoot, opts.maxRecursion, 0).ok

\* the notifications are all handled and the watcher is still open
Quiescent == pc = "watching" /\ watcher = "open" /\ events = <<>>

\* the regular files of the watched tree the containment check lets through
InputFiles ==
    {p \in DOMAIN fs : /\ StartsWith(p, WatchRoot \o <<"/">>)
                        /\ IsFile(fs, p)
                        /\ ~InOutputDir(p, opts.output)}

\* C13 as stated: once the changes are handled, every output file the run
\* wrote is the materialization of the input file at the same relative
\* path, the included fragments taken as they are now.
C13_OutputMirrorsInput ==
    (Quiescent /\ edits >= 1) =>
        \A p \in routed :
            IsFile(fs, OutputFilePath(opts.output, WatchRoot, p)) =>
                /\ IsFile(fs, p)
                /\ Expands(p)
                /\ fs[OutputFilePath(opts.output, WatchRoot, p)] = Materialization(p)

\* C13: once the changes made under an open watcher are handled, every
\* binary file and every text file without a directive line has an output
\* counterpart that is its materialization; an output whose input is gone,
\* or whose fragments changed after it was written, stays as it was.
C13_OutputMirrorsSelfContainedInput ==
    Quiescent =>
        \A p \in InputFiles :
            (IsTextFile(p, TextExtensions) => ~HasDirectiveLine(fs[p].content)) =>
                fs[OutputFilePath(opts.output, WatchRoot, p)] = Materialization(p)

C13_Witness ==
    /\ Quiescent
    /\ edits = 2
    /\ last.w = 2
    /\ last.path = AHtml
    /\ fs[AHtml] = File(<<"Hello">>)
    /\ fs[BHtml] = File(<<"Hello">>)
    /\ fs[OutputFilePath(opts.output, WatchRoot, AHtml)] = File(<<"Hello", LF>>)
    /\ fs[OutputFilePath(opts.output, WatchRoot, BHtml)] = File(<<"Hello", LF>>)
    /\ fs[OutputFilePath(opts.output, WatchRoot, PPng)] = fs[PPng]

\* C14: a file whose lower-cased extension is not a text extension, a file
\* without extension among them, is handled by copyBinaryFile, and its
\* output counterpart is the file as it is, directive lines included.
C14_BinaryCopiedVerbatim ==
    [][(last'.n # last.n /\ ExtName(last'.path) \notin TextExtensions) =>
          /\ last'.op = "binary"
          /\ fs'[OutputFilePath(opts.output, WatchRoot, last'.path)] = fs[last'.path]]_vars

C14_Witness ==
    /\ PassDone
    /\ opts.output = OutsideDir
    /\ {PPng, Dist2, CHtml} \subseteq routed
    /\ fs[OutputFilePath(OutsideDir, WatchRoot, PPng)] = File(Include(<<"b.html">>))
    /\ fs[OutputFilePath(OutsideDir, WatchRoot, Dist2)] = File(Include(<<"b.html">>))
    /\ fs[OutputFilePath(OutsideDir, WatchRoot, CHtml)] = File(<<"Hello", LF, LF>>)
    /\ IsFile(fs, BHtml)

\* C15: without a directory at the watch path the main script ends in
\* process.exit(1) and has done nothing: the file system is as it was, the
\* output directory neither deleted nor made, no file routed, no child, no
\* watcher, and nothing happens afterwards.
C15_NoWatchDirAbortsUntouched ==
    /\ [](pc = "exit1" =>
            /\ ~IsDirectory(fs, WatchRoot)
            /\ child = "none" /\ watcher = "none"
            /\ routed = {} /\ last.n = 0)
    /\ [][(pc = "main" /\ ~IsDirectory(fs, WatchRoot)) => (pc' = "exit1" /\ fs' = fs)]_vars
    /\ [][pc # "exit1"]_vars

C15_Witness ==
    /\ pc = "exit1"
    /\ IsFile(fs, WatchRoot)
    /\ opts.output = OutsideDir
    /\ ~opts.skipDelete
    /\ IsFile(fs, OldTxt(OutsideDir))

C15_WitnessMissing ==
    /\ pc = "exit1"
    /\ ~Exists(fs, WatchRoot)
    /\ ~Exists(fs, opts.output)

\* the walk is over: it returned, or the process died in it
WalkOver == (pc = "walk" /\ walk = <<>>) \/ pc \in {"spawned", "crashed"}

\* C16: a failure on one entry does not end the walk: when the walk is over,
\* every regular file at the top of the watched tree that the containment
\* check lets through has been routed, whatever failed on the other entries
\* (an expansion, a copy, the listing of a directory).
C16_WalkSurvivesEntryFailure ==
    WalkOver => \A p \in InputFiles : Parent(p) = WatchRoot => p \in routed

\* C17: the phases come in one order.  Nothing is routed before the reset,
\* which the script passes once; the child is launched when the walk has
\* returned, every file of the pass routed and its output written; the
\* watcher is opened after the launch; a file is routed again only by the
\* callback of an open watcher.
C17_PhasesInOrder ==
    /\ [](pc = "main" => (last.n = 0 /\ child = "none" /\ watcher = "none"))
    /\ [][pc # "main" => pc' # "main"]_vars
    /\ [][(child = "none" /\ child' # "none") =>
            /\ pc = "walk" /\ walk = <<>>
            /\ \A p \in InputFiles :
                  /\ p \in routed
                  /\ Expands(p) => IsFile(fs, OutputFilePath(opts.output, WatchRoot, p))]_vars
    /\ [][(watcher = "none" /\ watcher' # "none") =>
            (child # "none" /\ watcher' = "open")]_vars
    /\ [][last'.n # last.n =>
            \/ pc = "walk" /\ child = "none" /\ last'.w = 0
            \/ pc = "watching" /\ watcher = "open" /\ last'.w = last.w + 1]_vars

C17_Witness ==
    /\ pc = "watching"
    /\ watcher = "open"
    /\ child = "running"
    /\ ~opts.skipDelete
    /\ stale.kind = "file"
    /\ ~Exists(fs, OldTxt(opts.output))
    /\ {AHtml, PPng, CHtml} \subseteq routed
    /\ last.w = 1
    /\ last.path = BHtml

\* C18 as stated: the callback hands the expansion and the write over and
\* returns before they are done, so with a second notification of the same
\* path waiting, the step that takes the first off the queue leaves the
\* output counterpart as it was.
C18_CallbackReturnsBeforeWrite ==
    [][(/\ pc = "watching" /\ last'.n # last.n /\ last'.op = "text"
        /\ Len(events) >= 2 /\ events[2] = Head(events)) =>
          fs'[OutputFilePath(opts.output, WatchRoot, last'.path)] =
             fs[OutputFilePath(opts.output, WatchRoot, last'.path)]]_vars

\* C18: the callback handles a notification from its read to its write
\* before it returns.  Notifications are handled one at a time and in the
\* order of their delivery, and what a handling writes is the expansion of
\* the file as that same handling read it: two notifications of one path do
\* not interleave, and the later one decides the output.
C18_EventsHandledOneAtATime ==
    [][(pc = "watching" /\ last'.n # last.n) =>
          /\ events # <<>>
          /\ last'.path = PathJoin(WatchRoot, Head(events))
          /\ Len(events') >= Len(events) - 1
          /\ SubSeq(events', 1, Len(events) - 1) = Tail(events)
          /\ (last'.op = "text" /\ last'.ok) =>
                fs'[OutputFilePath(opts.output, WatchRoot, last'.path)] =
                   Materialization(last'.path)]_vars

C18_Witness ==
    /\ Quiescent
    /\ opts.output = OutsideDir
    /\ routed = {AHtml}
    /\ edits = 2
    /\ last.w = 2
    /\ last.ok
    /\ fs[AHtml] = File(<<"Hello">>)
    /\ fs[OutputFilePath(OutsideDir, WatchRoot, AHtml)] = File(<<"Hello", LF>>)

\* C19: a notification of a path that is gone or is no regular file is let
\* go: the step that takes it off the queue changes no file and no
\* directory and routes nothing, so the output counterpart of a deleted
\* input file stays.
C19_GoneOrNonFileEventIgnored ==
    [][(/\ events # <<>>
        /\ events' = Tail(events)
        /\ watcher' = "open"
        /\ ~IsFile(fs, PathJoin(WatchRoot, Head(events)))) =>
          (fs' = fs /\ last' = last /\ routed' = routed)]_vars

C19_Witness ==
    /\ Quiescent
    /\ edits = 1
    /\ AHtml \in routed
    /\ last.w = 0
    /\ ~Exists(fs, AHtml)
    /\ fs[OutputFilePath(opts.output, WatchRoot, AHtml)] = File(<<"Hello", LF>>)

\* C20: the containment check keeps out the output directory and what lies
\* in it, nothing else: when the walk has returned, every regular file of
\* the watched tree that is not in the output directory has been routed,
\* dist2 and dist.html next to the output directory dist among them.
C20_OnlyOutputContentsSkipped ==
    ((pc = "walk" /\ walk = <<>>) \/ pc = "spawned") =>
        \A p \in DOMAIN fs :
            (/\ StartsWith(p, WatchRoot \o <<"/">>)
             /\ IsFile(fs, p)
             /\ ~InsideOutput(p)) => p \in routed

====
